---------------------------- MODULE Spec2Model ----------------------------
(***************************************************************************)
(* A model of src/src/main.rs: the sphere ray tracer (Vec3 algebra,        *)
(* Sphere::ray_intersect, scene_intersect, the recursive cast_ray and the  *)
(* render loop that writes out.ppm).                                       *)
(*                                                                         *)
(* Numbers.  The program computes in f64.  The model computes in decimal   *)
(* fixed point: the integer n stands for the real n / SCALE, every product,*)
(* quotient and square root is rounded to the nearest representable value  *)
(* (as IEEE arithmetic rounds to the nearest double), and sums and         *)
(* differences are exact.  Operations are applied in the order and         *)
(* grouping of the source, so that rounding happens where the source       *)
(* rounds.                                                                 *)
(***************************************************************************)
EXTENDS Integers, Sequences, FiniteSets, TLC

(***************************************************************************)
(* Fixed-point arithmetic standing for f64                                 *)
(***************************************************************************)
\* number of representable values per unit
SCALE == 10000

\* let x = v; In(x): v is evaluated once and In is applied to its value
Let(v, In(_)) == CHOOSE res \in { In(val) : val \in {v} } : TRUE

\* the same for two values
Let2(v, w, In(_, _)) ==
    CHOOSE res \in { In(val1, val2) : val1 \in {v}, val2 \in {w} } : TRUE

\* the integer literal n as a number
F(n) == n * SCALE

\* n / d rounded to the nearest integer, halves away from zero (d > 0)
RoundDiv(n, d) ==
    IF n >= 0 THEN (2 * n + d) \div (2 * d)
              ELSE -((2 * (-n) + d) \div (2 * d))

\* the decimal literal num/den as a number
D(num, den) == RoundDiv(num * SCALE, den)

Abs(a) == IF a < 0 THEN -a ELSE a

\* |a| * |b| / SCALE rounded to nearest, for a, b >= 0; the product is
\* formed from the integer and fractional parts of the factors so that no
\* intermediate value leaves the range of the model's integers
MulAbs(a, b) ==
    (a \div SCALE) * (b \div SCALE) * SCALE
      + (a \div SCALE) * (b % SCALE)
      + (a % SCALE) * (b \div SCALE)
      + RoundDiv((a % SCALE) * (b % SCALE), SCALE)

\* a * b
FMul(a, b) ==
    Let2(a, b, LAMBDA p, q :
           (IF (p < 0) = (q < 0) THEN 1 ELSE -1) * MulAbs(Abs(p), Abs(q)))

\* a / b for b # 0 (the sign is carried by the numerator)
FDiv(a, b) ==
    Let2(a, b, LAMBDA p, q :
           IF q > 0 THEN RoundDiv(p * SCALE, q)
                    ELSE RoundDiv(-(p * SCALE), -q))

\* s * s <= a * SCALE, for s, a >= 0, without forming either product:
\* with s = q * SCALE + r the left side is
\* q * q * SCALE * SCALE + 2 * q * r * SCALE + r * r
SquareLeq(s, a) ==
    (s \div SCALE) * (s \div SCALE) * SCALE
      + 2 * (s \div SCALE) * (s % SCALE)
      + (((s % SCALE) * (s % SCALE) + SCALE - 1) \div SCALE) <= a

\* s * s + s + 1 <= a * SCALE, that is s + 1/2 < sqrt(a * SCALE)
RootAboveHalf(s, a) ==
    (s \div SCALE) * (s \div SCALE) * SCALE
      + 2 * (s \div SCALE) * (s % SCALE) + (s \div SCALE)
      + (((s % SCALE) * (s % SCALE) + (s % SCALE) + SCALE) \div SCALE) <= a

\* the largest value the square root search considers: its square is in
\* the range of the model's integers
SqrtCap == 460 * SCALE

\* s * s <= a * SCALE, for s within the search range
Fits(s, a) == s <= SqrtCap /\ SquareLeq(s, a)

\* the largest d in 0..7 for which base + d * unit fits, given that base
\* fits
Octal(a, base, unit) ==
    CHOOSE d \in 0..7 : d = 7 \/ ~Fits(base + (d + 1) * unit, a)

\* the largest d in 0..63 for which base + d * unit fits: its high octal
\* digit h, then its low one
Digit(a, base, unit) ==
    Let(Octal(a, base, 8 * unit), LAMBDA h :
          8 * h + Octal(a, base + 8 * h * unit, unit))

RECURSIVE ISqrtIn(_, _, _)
\* the largest s <= SqrtCap with s * s <= a * SCALE, found digit by digit
\* in base 64, from base upward in steps of unit
ISqrtIn(a, base, unit) ==
    IF unit = 0 THEN base
    ELSE Let(base + unit * Digit(a, base, unit), LAMBDA s :
               ISqrtIn(a, s, unit \div 64))

\* s or s + 1, whichever is nearer to sqrt(a * SCALE), for the integer
\* square root s
NearestRoot(a, s) == IF RootAboveHalf(s, a) THEN s + 1 ELSE s

\* f64::sqrt of a >= 0, rounded to nearest
FSqrt(a) ==
    Let(a, LAMBDA p :
          Let(ISqrtIn(p, 0, 64 * 64 * 64), LAMBDA s : NearestRoot(p, s)))

\* a * a
Square(a) == Let(a, LAMBDA p : FMul(p, p))

RECURSIVE FPowi(_, _)
\* f64::powi / powf with a non-negative integer exponent, by repeated
\* squaring
FPowi(a, e) ==
    IF e = 0 THEN F(1)
    ELSE Let(FPowi(a, e \div 2), LAMBDA h :
               IF e % 2 = 1 THEN FMul(Square(h), a) ELSE Square(h))

FMax(a, b) == Let2(a, b, LAMBDA p, q : IF p >= q THEN p ELSE q)

\* f64::clamp(lo, hi)
FClamp(a, lo, hi) ==
    Let(a, LAMBDA p : IF p < lo THEN lo ELSE IF p > hi THEN hi ELSE p)

(***************************************************************************)
(* Program constants                                                       *)
(***************************************************************************)
EPS == D(1, 1000)

CAST_RAY_DEPTH == 2

(***************************************************************************)
(* Pixel and Vec3                                                          *)
(***************************************************************************)
Vec(a, b, c) == [x |-> a, y |-> b, z |-> c]

Pix(red, green, blue) == [r |-> red, g |-> green, b |-> blue]

ORIGIN == Vec(0, 0, 0)

to_vec3(p) == Vec(p.r, p.g, p.b)

to_pixel(v) == Pix(v.x, v.y, v.z)

dot(a, b) ==
    Let2(a, b, LAMBDA p, q :
           FMul(p.x, q.x) + FMul(p.y, q.y) + FMul(p.z, q.z))

add(a, b) ==
    Let2(a, b, LAMBDA p, q : Vec(p.x + q.x, p.y + q.y, p.z + q.z))

sub(a, b) ==
    Let2(a, b, LAMBDA p, q : Vec(p.x - q.x, p.y - q.y, p.z - q.z))

mul(a, val) ==
    Let2(a, val, LAMBDA p, q :
           Vec(FMul(p.x, q), FMul(p.y, q), FMul(p.z, q)))

norm(a) == Let(a, LAMBDA p : FSqrt(dot(p, p)))

\* normalize is self.mul(1.0 / self.norm()).  For a vector of norm 0 the
\* quotient is infinite in f64 and the result is not a number; the model has
\* no such values and its scenes and queries normalize no such vector.
normalize(a) == Let(a, LAMBDA p : mul(p, FDiv(F(1), norm(p))))

reflect(a, normal) ==
    Let2(a, normal, LAMBDA p, q : sub(p, mul(q, FMul(F(2), dot(p, q)))))

\* lines 99-108, for the cosi, normal and eta that lines 90-98 have set
refract_eta(a, cosi, normal, eta) ==
    Let(F(1) - FMul(FPowi(eta, 2), F(1) - FPowi(cosi, 2)), LAMBDA k :
          IF k < 0 THEN Vec(0, 0, 0)
          ELSE add(mul(a, eta), mul(normal, FMul(eta, cosi) - FSqrt(k))))

refract(a, normal, refractive_index) ==
    Let(-FClamp(dot(a, normal), -F(1), F(1)), LAMBDA cosi :
          IF cosi < 0
          THEN refract_eta(a, -cosi, mul(normal, -F(1)), refractive_index)
          ELSE refract_eta(a, cosi, normal, FDiv(F(1), refractive_index)))

(***************************************************************************)
(* Material, Sphere, Light.  albedo is indexed 1..4 here and 0..3 in the   *)
(* source.                                                                 *)
(***************************************************************************)
Material(c, al, se, ri) ==
    [diffuse_color |-> c, albedo |-> al, specular_exponent |-> se,
     refractive_index |-> ri]

Sphere(c, r, m) == [center |-> c, radius |-> r, material |-> m]

Light(p, i) == [position |-> p, intensity |-> i]

\* Option<T>: None is the empty sequence, Some(v) the one-element sequence
None == << >>

Some(v) == << v >>

(***************************************************************************)
(* Sphere::ray_intersect                                                   *)
(***************************************************************************)
\* nearest_root taking a root only when it is strictly positive
nearest_root_positive(t0, t1) ==
    IF t0 > 0 THEN Some(t0)
    ELSE IF t1 > 0 THEN Some(t1)
    ELSE None

\* the choice between the two roots, lines 156-162
nearest_root(t0, t1) ==
    IF t0 >= 0 THEN Some(t0)
    ELSE IF t1 >= 0 THEN Some(t1)
    ELSE None

ray_intersect(sphere, orig, dir) ==
    Let(sub(sphere.center, orig), LAMBDA l :
    Let(dot(l, dir), LAMBDA tca :
    Let(dot(l, l) - FMul(tca, tca), LAMBDA d2 :
    Let(FMul(sphere.radius, sphere.radius), LAMBDA r2 :
          IF d2 > r2 THEN None
          ELSE Let(FSqrt(r2 - d2), LAMBDA thc :
                     nearest_root(tca - thc, tca + thc))))))

(***************************************************************************)
(* scene_intersect                                                         *)
(***************************************************************************)
\* closer with the comparison of the distances turned round
closer_farther(closest, t, sphere) ==
    IF t = None THEN closest
    ELSE IF closest = None THEN Some(<<t[1], sphere>>)
    ELSE IF t[1] > closest[1][1] THEN Some(<<t[1], sphere>>)
    ELSE closest

\* one iteration of the scan, lines 174-184, for the result t of
\* ray_intersect: closest is None or Some(<<distance, sphere>>)
closer(closest, t, sphere) ==
    IF t = None THEN closest
    ELSE IF closest = None THEN Some(<<t[1], sphere>>)
    ELSE IF t[1] < closest[1][1] THEN Some(<<t[1], sphere>>)
    ELSE closest

RECURSIVE closest_sphere(_, _, _, _)
\* the value of closest_sphere after the first n spheres, lines 172-185
closest_sphere(orig, dir, spheres, n) ==
    IF n = 0 THEN None
    ELSE Let2(closest_sphere(orig, dir, spheres, n - 1),
              ray_intersect(spheres[n], orig, dir),
              LAMBDA closest, t : closer(closest, t, spheres[n]))

\* Some([hit, normal, material]) or None
scene_intersect(orig, dir, spheres) ==
    Let(closest_sphere(orig, dir, spheres, Len(spheres)), LAMBDA closest :
          IF closest = None THEN None
          ELSE Let(add(orig, mul(dir, closest[1][1])), LAMBDA hit :
                     Some([hit      |-> hit,
                           normal   |-> normalize(sub(hit,
                                                      closest[1][2].center)),
                           material |-> closest[1][2].material])))

(***************************************************************************)
(* cast_ray: the pieces between its calls.  s is the [hit, normal,         *)
(* material] that scene_intersect returned.                                *)
(***************************************************************************)
BACKGROUND_COLOR == Pix(D(2, 10), D(7, 10), D(8, 10))

\* lines 227-229
hit_outside(hit, normal) == add(hit, mul(normal, EPS))

hit_inside(hit, normal) == sub(hit, mul(normal, EPS))

\* secondary_orig taking the inner point also for a dot product of zero
secondary_orig_nonpositive(d, hit, normal) ==
    IF dot(d, normal) <= 0 THEN hit_inside(hit, normal)
                           ELSE hit_outside(hit, normal)

\* the origin of a secondary ray of direction d: lines 232-238, 243-249
\* and 259-265
secondary_orig(d, hit, normal) ==
    IF dot(d, normal) < 0 THEN hit_inside(hit, normal)
                          ELSE hit_outside(hit, normal)

\* occluded without the comparison of the distances
occluded_anywhere(sh, shadow_orig, light_vec) == sh # None

\* line 270, for the result sh of the shadow ray's scene_intersect
occluded(sh, shadow_orig, light_vec) ==
    /\ sh # None
    /\ norm(light_vec) > norm(sub(sh[1].hit, shadow_orig))

\* lines 275-281
lit(acc, light, light_dir, s, dir) ==
    [dli |-> acc.dli
               + FMul(light.intensity, FMax(dot(light_dir, s.normal), 0)),
     sli |-> acc.sli
               + FMul(light.intensity,
                      FPowi(FMax(dot(reflect(light_dir, s.normal), dir), 0),
                            s.material.specular_exponent))]

\* the shadow test of one light, lines 257-273
in_shadow(light, light_dir, s, spheres) ==
    Let(secondary_orig(light_dir, s.hit, s.normal), LAMBDA shadow_orig :
          occluded(scene_intersect(shadow_orig, light_dir, spheres),
                   shadow_orig, sub(light.position, s.hit)))

\* one iteration of the light loop, lines 253-282, on acc = [dli, sli]
light_step(acc, light, s, dir, spheres) ==
    Let(normalize(sub(light.position, s.hit)), LAMBDA light_dir :
          IF in_shadow(light, light_dir, s, spheres)
          THEN acc
          ELSE lit(acc, light, light_dir, s, dir))

\* shade weighting the refracted colour with albedo[0]
shade_diffuse_refraction(material, acc, reflect_color, refract_color) ==
    to_pixel(
      add(add(add(mul(material.diffuse_color,
                      FMul(acc.dli, material.albedo[1])),
                  mul(Vec(F(1), F(1), F(1)),
                      FMul(acc.sli, material.albedo[2]))),
              mul(reflect_color, material.albedo[3])),
          mul(refract_color, material.albedo[1])))

\* the sum that cast_ray returns for a hit, lines 284-297
shade(material, acc, reflect_color, refract_color) ==
    to_pixel(
      add(add(add(mul(material.diffuse_color,
                      FMul(acc.dli, material.albedo[1])),
                  mul(Vec(F(1), F(1), F(1)),
                      FMul(acc.sli, material.albedo[2]))),
              mul(reflect_color, material.albedo[3])),
          mul(refract_color, material.albedo[4])))

RECURSIVE light_loop(_, _, _, _, _)
\* [dli, sli] after the first n lights
light_loop(n, lights, s, dir, spheres) ==
    IF n = 0 THEN [dli |-> 0, sli |-> 0]
    ELSE Let(light_loop(n - 1, lights, s, dir, spheres), LAMBDA acc :
               light_step(acc, lights[n], s, dir, spheres))

RECURSIVE cast_ray(_, _, _, _, _, _)
RECURSIVE cast_secondary(_, _, _, _, _, _)
RECURSIVE cast_hit(_, _, _, _, _, _)
\* cast_ray as a function, its depth limit CAST_RAY_DEPTH passed as the
\* parameter limit
cast_ray(limit, depth, orig, dir, spheres, lights) ==
    IF depth > limit THEN BACKGROUND_COLOR
    ELSE Let(scene_intersect(orig, dir, spheres), LAMBDA si :
               cast_hit(limit, depth, dir, si, spheres, lights))

\* lines 239 and 250: the recursive call for the secondary direction d
cast_secondary(limit, depth, d, s, spheres, lights) ==
    to_vec3(cast_ray(limit, depth + 1, secondary_orig(d, s.hit, s.normal), d,
                     spheres, lights))

\* lines 214-299, for the result si of scene_intersect
cast_hit(limit, depth, dir, si, spheres, lights) ==
    IF si = None THEN BACKGROUND_COLOR
    ELSE Let2(cast_secondary(limit, depth, reflect(dir, si[1].normal),
                             si[1], spheres, lights),
              cast_secondary(limit, depth,
                             refract(dir, si[1].normal,
                                     si[1].material.refractive_index),
                             si[1], spheres, lights),
              LAMBDA reflect_color, refract_color :
                shade(si[1].material,
                      light_loop(Len(lights), lights, si[1], dir, spheres),
                      reflect_color, refract_color))

(***************************************************************************)
(* render: the camera and the byte conversion                              *)
(***************************************************************************)
\* the raster of the model; the source renders 1024 x 768
WIDTH == 4

HEIGHT == 3

\* (FOV / 2.0).tan() for FOV = PI / 3.0
TanHalfFov == D(57735, 100000)

screen_width == FMul(F(2), TanHalfFov)

\* pixel_dir with the raster walked by columns
pixel_dir_by_columns(i) ==
    LET x == F(i \div HEIGHT) + D(1, 2) - FDiv(F(WIDTH), F(2))
        y == -F(i % HEIGHT) - D(1, 2) + FDiv(F(HEIGHT), F(2))
        z == FDiv(F(HEIGHT), -screen_width)
    IN  normalize(Vec(x, y, z))

\* the direction of pixel i, lines 320-323
pixel_dir(i) ==
    LET x == F(i % WIDTH) + D(1, 2) - FDiv(F(WIDTH), F(2))
        y == -F(i \div WIDTH) - D(1, 2) + FDiv(F(HEIGHT), F(2))
        z == FDiv(F(HEIGHT), -screen_width)
    IN  normalize(Vec(x, y, z))

\* as u8 keeping the low eight bits of the integer part
as_u8_wrapping(v) ==
    IF v < 0 THEN 0 ELSE (v \div SCALE) % 256

\* v as u8: the cast of a float to an integer type rounds toward zero and
\* saturates at the bounds of the type
as_u8(v) ==
    IF v < 0 THEN 0
    ELSE IF v \div SCALE > 255 THEN 255
    ELSE v \div SCALE

\* lines 328-332
pixel_bytes(pixel) ==
    << as_u8(FMul(pixel.r, F(255))),
       as_u8(FMul(pixel.g, F(255))),
       as_u8(FMul(pixel.b, F(255))) >>

(***************************************************************************)
(* The scene of main and further scenes given to render                    *)
(***************************************************************************)
ivory ==
    Material(Vec(D(4, 10), D(4, 10), D(3, 10)),
             << D(6, 10), D(3, 10), D(1, 10), 0 >>, 50, F(1))

glass ==
    Material(Vec(D(6, 10), D(7, 10), D(8, 10)),
             << 0, D(5, 10), D(1, 10), D(8, 10) >>, 125, D(15, 10))

red_rubber ==
    Material(Vec(D(3, 10), D(1, 10), D(1, 10)),
             << D(9, 10), D(1, 10), 0, 0 >>, 10, F(1))

mirror ==
    Material(Vec(F(1), F(1), F(1)),
             << 0, F(10), D(8, 10), 0 >>, 1425, F(1))

\* a bright diffuse material: no reflectance, no refractance
chalk ==
    Material(Vec(F(1), D(9, 10), D(8, 10)),
             << D(9, 10), D(1, 10), 0, 0 >>, 10, F(1))

\* a transparent material with no reflectance: albedo[2] = 0, albedo[3] > 0
clear ==
    Material(Vec(D(6, 10), D(7, 10), D(8, 10)),
             << D(1, 10), D(5, 10), 0, D(8, 10) >>, 125, D(15, 10))

\* main, lines 381-445
MainScene ==
    [spheres |-> << Sphere(Vec(-F(3), 0, -F(16)), F(2), ivory),
                    Sphere(Vec(-F(1), -D(15, 10), -F(12)), F(2), glass),
                    Sphere(Vec(D(15, 10), -D(5, 10), -F(18)), F(3),
                           red_rubber),
                    Sphere(Vec(F(7), F(5), -F(18)), F(4), mirror) >>,
     lights  |-> << Light(Vec(-F(20), F(20), F(20)), D(15, 10)),
                    Light(Vec(F(30), F(50), -F(25)), D(18, 10)),
                    Light(Vec(F(30), F(20), F(30)), D(17, 10)) >>]

\* nothing to hit
EmptyScene == [spheres |-> << >>, lights |-> << Light(Vec(0, F(5), 0), F(1)) >>]

\* two diffuse spheres, the small one between the large one and the first
\* light
DiffuseScene ==
    [spheres |-> << Sphere(Vec(0, 0, -F(6)), F(2), chalk),
                    Sphere(Vec(D(25, 10), F(2), -D(25, 10)), F(1),
                           red_rubber) >>,
     lights  |-> << Light(Vec(F(5), F(5), 0), F(2)),
                    Light(Vec(-F(5), F(5), 0), D(18, 10)) >>]

\* a transparent sphere without reflectance in front of a diffuse one
ClearScene ==
    [spheres |-> << Sphere(Vec(0, 0, -F(5)), D(15, 10), clear),
                    Sphere(Vec(0, 0, -F(11)), F(4), chalk) >>,
     lights  |-> << Light(Vec(-F(5), F(5), 0), D(15, 10)) >>]

\* the camera inside a glass sphere, off its centre, both inside a mirror
\* sphere: every ray hits, and the rays inside bounce for ever
TrappedScene ==
    [spheres |-> << Sphere(Vec(D(17, 10), 0, 0), F(2), glass),
                    Sphere(Vec(0, D(5, 10), -F(1)), F(6), mirror) >>,
     lights  |-> << Light(Vec(0, F(3), -F(2)), D(15, 10)) >>]

Scenes == {MainScene, EmptyScene, DiffuseScene, ClearScene, TrappedScene}

(***************************************************************************)
(* State                                                                   *)
(***************************************************************************)
VARIABLES
    spheres,      \* render's argument
    lights,       \* render's argument
    pc,           \* where render is: "header", "trace", "cast", "write", "done"
    i,            \* the pixel index of render's first loop
    framebuffer,  \* the pixels pushed so far
    written,      \* the number of pixels the second loop has written
    out,          \* what has been written to out.ppm, in order
    stack,        \* the cast_ray invocations in progress, innermost last
    ret,          \* the value the last finished cast_ray returned
    calls,        \* history: the cast_ray invocations of the current pixel
    primaries,    \* history: the calls of cast_ray that render has made
    shadow,       \* history: the last shadow ray cast, or None
    q_orig,       \* an intersection query: the ray's origin
    q_dir,        \* its direction
    q_spheres,    \* its sphere sequence
    q_pc,         \* "ready", "ray" or "scene"
    q_k,          \* the sphere ray_intersect was called on
    q_t,          \* what ray_intersect returned
    q_res         \* what scene_intersect returned

render_vars == << spheres, lights, pc, i, framebuffer, written, out, stack,
                  ret, calls, primaries, shadow >>

query_vars == << q_orig, q_dir, q_spheres, q_pc, q_k, q_t, q_res >>

vars == << spheres, lights, pc, i, framebuffer, written, out, stack, ret,
           calls, primaries, shadow, q_orig, q_dir, q_spheres, q_pc, q_k,
           q_t, q_res >>

\* the depth of call stack the model follows (the recursion of the source
\* never needs more than CAST_RAY_DEPTH + 2 frames)
MaxStack == 6

\* an invocation of cast_ray that has not started: id is its index in
\* calls, lit the history of what each light added to dli and sli
Frame(id, depth, orig, dir) ==
    [id |-> id, depth |-> depth, orig |-> orig, dir |-> dir, at |-> "start",
     hit |-> ORIGIN, normal |-> ORIGIN, material |-> ivory,
     reflect_color |-> ORIGIN, refract_color |-> ORIGIN,
     dli |-> 0, sli |-> 0, k |-> 1, lit |-> << >>]

\* the record of an invocation: parent is the index of the invocation that
\* made it (0 for render), from the hit and normal it was cast from, scenes
\* the number of scene_intersect calls it has made itself, result what it
\* returned
Call(depth, orig, dir, parent, kind, from) ==
    [depth |-> depth, orig |-> orig, dir |-> dir, parent |-> parent,
     kind |-> kind, from |-> from, scenes |-> 0, result |-> None]

Top == stack[Len(stack)]

Pop == SubSeq(stack, 1, Len(stack) - 1)

\* the stack with its innermost frame replaced by f
WithTop(f) == [stack EXCEPT ![Len(stack)] = f]

\* calls with one more scene_intersect counted for the innermost frame
Scanned == [calls EXCEPT ![Top.id].scenes = @ + 1]

QueryInit ==
    /\ q_orig = ORIGIN
    /\ q_dir = ORIGIN
    /\ q_spheres = << >>
    /\ q_pc = "ready"
    /\ q_k = 0
    /\ q_t = None
    /\ q_res = None

RenderInit ==
    /\ pc = "header"
    /\ i = 0
    /\ framebuffer = << >>
    /\ written = 0
    /\ out = << >>
    /\ stack = << >>
    /\ ret = BACKGROUND_COLOR
    /\ calls = << >>
    /\ primaries = << >>
    /\ shadow = None

Init ==
    /\ \E sc \in Scenes : spheres = sc.spheres /\ lights = sc.lights
    /\ RenderInit
    /\ QueryInit

(***************************************************************************)
(* render                                                                  *)
(***************************************************************************)
\* lines 304-317: the file is created and the header written
WriteHeader ==
    /\ pc = "header"
    /\ out' = Append(out, [kind |-> "header", magic |-> "P6",
                           width |-> WIDTH, height |-> HEIGHT,
                           maxval |-> 255])
    /\ pc' = IF WIDTH * HEIGHT = 0 THEN "done" ELSE "trace"
    /\ UNCHANGED << spheres, lights, i, framebuffer, written, stack, ret,
                    calls, primaries, shadow >>
    /\ UNCHANGED query_vars

\* lines 319-324 up to the call: cast_ray(0, &ORIGIN, &dir, ...)
PrimaryRay ==
    /\ pc = "trace"
    /\ \E dir \in {pixel_dir(i)} :
         /\ stack' = << Frame(1, 0, ORIGIN, dir) >>
         /\ calls' = << Call(0, ORIGIN, dir, 0, "primary", None) >>
         /\ primaries' = Append(primaries, [i |-> i, depth |-> 0,
                                            orig |-> ORIGIN, dir |-> dir])
    /\ shadow' = None
    /\ pc' = "cast"
    /\ UNCHANGED << spheres, lights, i, framebuffer, written, out, ret >>
    /\ UNCHANGED query_vars

\* line 324 after the call: framebuffer.push, and the loop's next index
StorePixel ==
    /\ pc = "cast"
    /\ stack = << >>
    /\ framebuffer' = Append(framebuffer, ret)
    /\ i' = i + 1
    /\ pc' = IF i + 1 < WIDTH * HEIGHT THEN "trace" ELSE "write"
    /\ UNCHANGED << spheres, lights, written, out, stack, ret, calls,
                    primaries, shadow >>
    /\ UNCHANGED query_vars

\* lines 327-336: one iteration of the second loop
WritePixel ==
    /\ pc = "write"
    /\ written < Len(framebuffer)
    /\ out' = Append(out, [kind |-> "pixel",
                           bytes |-> pixel_bytes(framebuffer[written + 1])])
    /\ written' = written + 1
    /\ pc' = IF written + 1 < Len(framebuffer) THEN "write" ELSE "done"
    /\ UNCHANGED << spheres, lights, i, framebuffer, stack, ret, calls,
                    primaries, shadow >>
    /\ UNCHANGED query_vars

(***************************************************************************)
(* cast_ray, one action per stretch of code between calls                  *)
(***************************************************************************)
\* Recurse passing its caller's depth on unchanged
Recurse_same_depth(f, orig, dir, kind, log) ==
    /\ Len(stack) < MaxStack
    /\ stack' = Append(WithTop(f), Frame(Len(log) + 1, f.depth, orig, dir))
    /\ calls' = Append(log, Call(f.depth, orig, dir, f.id, kind,
                                 Some([hit |-> f.hit, normal |-> f.normal])))

\* the call cast_ray(depth + 1, orig, dir, ...) made by the innermost
\* frame, which becomes f; log is calls before the call
Recurse(f, orig, dir, kind, log) ==
    /\ Len(stack) < MaxStack
    /\ stack' = Append(WithTop(f),
                       Frame(Len(log) + 1, f.depth + 1, orig, dir))
    /\ calls' = Append(log, Call(f.depth + 1, orig, dir, f.id, kind,
                                 Some([hit |-> f.hit, normal |-> f.normal])))

\* the innermost invocation returns color
Return(color, log) ==
    /\ stack' = Pop
    /\ ret' = color
    /\ calls' = [log EXCEPT ![Top.id].result = Some(color)]

\* the test of line 211 against a limit one higher
depth_exceeded_late(depth) == depth > CAST_RAY_DEPTH + 1

\* the test of line 211
depth_exceeded(depth) == depth > CAST_RAY_DEPTH

\* lines 211-212
CastRayDepthExceeded ==
    /\ stack # << >>
    /\ Top.at = "start"
    /\ depth_exceeded(Top.depth)
    /\ Return(BACKGROUND_COLOR, calls)
    /\ UNCHANGED << spheres, lights, pc, i, framebuffer, written, out,
                    primaries, shadow >>
    /\ UNCHANGED query_vars

\* lines 214-216
CastRayMiss ==
    /\ stack # << >>
    /\ Top.at = "start"
    /\ ~depth_exceeded(Top.depth)
    /\ scene_intersect(Top.orig, Top.dir, spheres) = None
    /\ Return(BACKGROUND_COLOR, Scanned)
    /\ UNCHANGED << spheres, lights, pc, i, framebuffer, written, out,
                    primaries, shadow >>
    /\ UNCHANGED query_vars

\* lines 218-239, for the s = [hit, normal, material] of line 218
EnterHit(s, reflect_dir) ==
    Recurse([Top EXCEPT !.at = "reflect", !.hit = s.hit,
                        !.normal = s.normal, !.material = s.material,
                        !.dli = 0, !.sli = 0],
            secondary_orig(reflect_dir, s.hit, s.normal), reflect_dir,
            "reflect", Scanned)

\* lines 214-239 up to the reflection call
CastRayHit ==
    /\ stack # << >>
    /\ Top.at = "start"
    /\ ~depth_exceeded(Top.depth)
    /\ \E si \in {scene_intersect(Top.orig, Top.dir, spheres)} :
         /\ si # None
         /\ \E reflect_dir \in {reflect(Top.dir, si[1].normal)} :
              EnterHit(si[1], reflect_dir)
    /\ UNCHANGED << spheres, lights, pc, i, framebuffer, written, out, ret,
                    primaries, shadow >>
    /\ UNCHANGED query_vars

\* CastRayReflected making the refraction call only for a material that
\* refracts
CastRayReflectedIfRefractive ==
    /\ stack # << >>
    /\ Top.at = "reflect"
    /\ IF Top.material.albedo[4] = 0
       THEN /\ stack' = WithTop([Top EXCEPT !.at = "lights",
                                            !.reflect_color = to_vec3(ret),
                                            !.refract_color = ORIGIN,
                                            !.k = 1])
            /\ UNCHANGED calls
       ELSE \E refract_dir \in {refract(Top.dir, Top.normal,
                                         Top.material.refractive_index)} :
              Recurse([Top EXCEPT !.at = "refract",
                                  !.reflect_color = to_vec3(ret)],
                      secondary_orig(refract_dir, Top.hit, Top.normal),
                      refract_dir, "refract", calls)
    /\ UNCHANGED << spheres, lights, pc, i, framebuffer, written, out, ret,
                    primaries, shadow >>
    /\ UNCHANGED query_vars

\* lines 239-250: the reflection call has returned; up to the refraction call
CastRayReflected ==
    /\ stack # << >>
    /\ Top.at = "reflect"
    /\ \E refract_dir \in {refract(Top.dir, Top.normal,
                                    Top.material.refractive_index)} :
         Recurse([Top EXCEPT !.at = "refract",
                             !.reflect_color = to_vec3(ret)],
                 secondary_orig(refract_dir, Top.hit, Top.normal),
                 refract_dir, "refract", calls)
    /\ UNCHANGED << spheres, lights, pc, i, framebuffer, written, out, ret,
                    primaries, shadow >>
    /\ UNCHANGED query_vars

\* lines 250-253: the refraction call has returned; the light loop begins
CastRayRefracted ==
    /\ stack # << >>
    /\ Top.at = "refract"
    /\ stack' = WithTop([Top EXCEPT !.at = "lights",
                                    !.refract_color = to_vec3(ret), !.k = 1])
    /\ UNCHANGED << spheres, lights, pc, i, framebuffer, written, out, ret,
                    calls, primaries, shadow >>
    /\ UNCHANGED query_vars

\* lines 253-282: one iteration of the light loop
CastRayLight ==
    /\ stack # << >>
    /\ Top.at = "lights"
    /\ Top.k <= Len(lights)
    /\ \E acc \in {light_step([dli |-> Top.dli, sli |-> Top.sli],
                              lights[Top.k], Top, Top.dir, spheres)} :
         stack' = WithTop([Top EXCEPT
                             !.dli = acc.dli, !.sli = acc.sli,
                             !.k = Top.k + 1,
                             !.lit = Append(@, [dli |-> acc.dli - Top.dli,
                                                sli |-> acc.sli - Top.sli])])
    /\ \E light_dir \in {normalize(sub(lights[Top.k].position, Top.hit))} :
         shadow' = Some([orig |-> secondary_orig(light_dir, Top.hit,
                                                 Top.normal),
                         dir |-> light_dir, hit |-> Top.hit,
                         normal |-> Top.normal])
    /\ calls' = Scanned
    /\ UNCHANGED << spheres, lights, pc, i, framebuffer, written, out, ret,
                    primaries >>
    /\ UNCHANGED query_vars

\* lines 284-297: the loop is over, the colour is returned
CastRayShade ==
    /\ stack # << >>
    /\ Top.at = "lights"
    /\ Top.k > Len(lights)
    /\ \E color \in {shade(Top.material, [dli |-> Top.dli, sli |-> Top.sli],
                            Top.reflect_color, Top.refract_color)} :
         Return(color, calls)
    /\ UNCHANGED << spheres, lights, pc, i, framebuffer, written, out,
                    primaries, shadow >>
    /\ UNCHANGED query_vars

Next ==
    \/ WriteHeader
    \/ PrimaryRay
    \/ StorePixel
    \/ WritePixel
    \/ CastRayDepthExceeded
    \/ CastRayMiss
    \/ CastRayHit
    \/ CastRayReflected
    \/ CastRayRefracted
    \/ CastRayLight
    \/ CastRayShade

Spec == Init /\ [][Next]_vars

\* the program is one thread that runs to its end
FairSpec == Spec /\ WF_vars(Next)

(***************************************************************************)
(* Intersection queries: ray_intersect and scene_intersect applied to rays *)
(* and sphere sequences drawn from bounded sets                            *)
(***************************************************************************)
\* the longest sphere sequence of a query
MaxSpheres == 3

QueryPool ==
    { Sphere(Vec(0, 0, -F(5)), F(2), ivory),
      Sphere(Vec(0, 0, -F(10)), F(3), red_rubber),
      Sphere(Vec(0, F(1), 0), F(4), glass),
      Sphere(Vec(0, 0, -F(5)), F(2), mirror),
      Sphere(Vec(F(3), 0, -F(5)), F(1), chalk) }

\* (0, 0, -3) lies on the first sphere of the pool
QueryOrigins ==
    { ORIGIN, Vec(0, 0, -F(3)), Vec(0, 0, -F(20)), Vec(F(1), 0, F(1)) }

\* unit vectors, and the zero vector that refract returns
QueryDirs ==
    { Vec(0, 0, -F(1)), Vec(0, 0, F(1)), Vec(F(1), 0, 0),
      normalize(Vec(F(1), 0, -F(2))), Vec(0, 0, 0) }

\* the sequences of at most MaxSpheres distinct spheres of the pool
QuerySequences ==
    UNION { { q \in [1..n -> QueryPool] :
                \A j, k \in 1..n : j # k => q[j] # q[k] } :
            n \in 0..MaxSpheres }

IntersectInit ==
    /\ spheres = EmptyScene.spheres
    /\ lights = EmptyScene.lights
    /\ RenderInit
    /\ q_orig \in QueryOrigins
    /\ q_dir \in QueryDirs
    /\ q_spheres \in QuerySequences
    /\ q_pc = "ready"
    /\ q_k = 0
    /\ q_t = None
    /\ q_res = None

\* sphere.ray_intersect(orig, dir) for one sphere of the sequence
RayIntersectCall ==
    /\ q_pc = "ready"
    /\ \E k \in 1..Len(q_spheres) :
         /\ q_k' = k
         /\ q_t' = ray_intersect(q_spheres[k], q_orig, q_dir)
    /\ q_pc' = "ray"
    /\ UNCHANGED << q_orig, q_dir, q_spheres, q_res >>
    /\ UNCHANGED render_vars

\* scene_intersect(orig, dir, spheres)
SceneIntersectCall ==
    /\ q_pc = "ready"
    /\ q_res' = scene_intersect(q_orig, q_dir, q_spheres)
    /\ q_pc' = "scene"
    /\ UNCHANGED << q_orig, q_dir, q_spheres, q_k, q_t >>
    /\ UNCHANGED render_vars

IntersectNext == RayIntersectCall \/ SceneIntersectCall

SpecIntersect == IntersectInit /\ [][IntersectNext]_vars

(***************************************************************************)
(* Properties                                                              *)
(***************************************************************************)
\* the depth limits a build of the program is compared under
MaxLimit == 3

\* the invocations made by invocation n
Children(n) == { m \in 1..Len(calls) : calls[m].parent = n }

\* invocation n is within the depth limit and its ray hits a sphere
IsHit(n) ==
    /\ calls[n].depth <= CAST_RAY_DEPTH
    /\ scene_intersect(calls[n].orig, calls[n].dir, spheres) # None

\* C1: an invocation of cast_ray with depth > CAST_RAY_DEPTH returns
\* exactly the background colour (0.2, 0.7, 0.8), calls scene_intersect not
\* once and makes no recursive call.
C1_DepthCap ==
    /\ BACKGROUND_COLOR = Pix(D(2, 10), D(7, 10), D(8, 10))
    /\ \A n \in 1..Len(calls) :
         calls[n].depth > CAST_RAY_DEPTH =>
           /\ calls[n].scenes = 0
           /\ Children(n) = {}
           /\ calls[n].result \in {None, Some(BACKGROUND_COLOR)}
    /\ \A n \in 1..Len(stack) :
         stack[n].depth > CAST_RAY_DEPTH => stack[n].at = "start"

\* an invocation beyond the limit has returned, for a ray that would have
\* hit a sphere
C1_Witness ==
    \E n \in 1..Len(calls) :
      /\ calls[n].depth > CAST_RAY_DEPTH
      /\ calls[n].result = Some(BACKGROUND_COLOR)
      /\ scene_intersect(calls[n].orig, calls[n].dir, spheres) # None

\* every recursive call passes its caller's depth + 1, render calls with
\* depth 0, and no invocation runs with depth > CAST_RAY_DEPTH + 1
DepthsIncrease ==
    /\ \A n \in 1..Len(calls) :
         /\ calls[n].parent = 0 => calls[n].depth = 0
         /\ calls[n].parent # 0 =>
              calls[n].depth = calls[calls[n].parent].depth + 1
         /\ calls[n].depth <= CAST_RAY_DEPTH + 1
    /\ \A n \in 1..Len(stack) :
         /\ stack[n].depth = n - 1
         /\ stack[n].depth <= CAST_RAY_DEPTH + 1

\* C2: the reflection and the refraction call pass depth + 1, no invocation
\* runs with depth > CAST_RAY_DEPTH + 1, and every cast_ray(0, ...) returns
\* (so that render reaches its end), also where the rays bounce between
\* surfaces for ever.
C2_Terminates ==
    /\ []DepthsIncrease
    /\ (stack # << >>) ~> (stack = << >>)
    /\ <>(pc = "done")

\* the recursion is as deep as it gets, and the innermost ray would hit
\* again
C2_Witness ==
    /\ Len(stack) = CAST_RAY_DEPTH + 2
    /\ Top.depth = CAST_RAY_DEPTH + 1
    /\ scene_intersect(Top.orig, Top.dir, spheres) # None

\* the bijections of 1..n
Bijections(n) ==
    { p \in [1..n -> 1..n] : \A j, k \in 1..n : j # k => p[j] # p[k] }

Permuted(seq, p) == [k \in 1..Len(seq) |-> seq[p[k]]]

\* the spheres of the query that the ray intersects
QHits ==
    { k \in 1..Len(q_spheres) :
        ray_intersect(q_spheres[k], q_orig, q_dir) # None }

QDist(k) == ray_intersect(q_spheres[k], q_orig, q_dir)[1]

QNoTies == \A j, k \in QHits : j # k => QDist(j) # QDist(k)

\* the hit that sphere k gives
QHitOf(k) ==
    [hit      |-> add(q_orig, mul(q_dir, QDist(k))),
     normal   |-> normalize(sub(add(q_orig, mul(q_dir, QDist(k))),
                                q_spheres[k].center)),
     material |-> q_spheres[k].material]

\* C3: scene_intersect returns None exactly when no sphere is intersected;
\* when no two spheres are hit at the same distance it returns the hit of
\* the sphere of smallest ray_intersect distance (the point orig + dir *
\* distance, that sphere's material), and the same for every permutation of
\* the sphere sequence.
C3_NearestHit ==
    q_pc = "scene" =>
      /\ (q_res = None) <=> (QHits = {})
      /\ QNoTies =>
           /\ \A k \in QHits :
                (\A j \in QHits : QDist(k) <= QDist(j)) =>
                  q_res = Some(QHitOf(k))
           /\ \A p \in Bijections(Len(q_spheres)) :
                scene_intersect(q_orig, q_dir, Permuted(q_spheres, p)) = q_res

\* several spheres are hit at different distances and the nearest is not
\* the first of the sequence
C3_Witness ==
    /\ q_pc = "scene"
    /\ QNoTies
    /\ Cardinality(QHits) >= 2
    /\ 1 \in QHits
    /\ \E k \in QHits : k > 1 /\ QDist(k) < QDist(1)
    /\ q_res # None

\* the smallest element of a non-empty set of numbers
Least(S) == CHOOSE t \in S : \A u \in S : t <= u

\* what the claim says of the query's ray_intersect call, for the tca, d2
\* and r2 of lines 146-148
RootsAsClaimed(tca, d2, r2) ==
    /\ d2 > r2 => q_t = None
    /\ d2 <= r2 =>
         LET thc    == FSqrt(r2 - d2)
             nonneg == { t \in {tca - thc, tca + thc} : t >= 0 }
         IN  /\ tca - thc <= tca + thc
             /\ nonneg = {} => q_t = None
             /\ nonneg # {} => q_t = Some(Least(nonneg))
    /\ q_t # None => q_t[1] >= 0

\* C4: ray_intersect returns the least non-negative of the roots
\* t0 = tca - thc <= t1 = tca + thc (t0 when t0 >= 0, else t1 when t1 >= 0),
\* and no hit when both are negative or when d2 > r2; a root equal to 0 is a
\* hit, and a returned distance is never negative.
C4_NearestRoot ==
    q_pc = "ray" =>
      LET l   == sub(q_spheres[q_k].center, q_orig)
          tca == dot(l, q_dir)
      IN  RootsAsClaimed(tca, dot(l, l) - FMul(tca, tca),
                         FMul(q_spheres[q_k].radius, q_spheres[q_k].radius))

\* the ray starts on the sphere: the root 0 is returned
C4_Witness ==
    /\ q_pc = "ray"
    /\ q_t = Some(0)

\* the shadow ray of light j from the hit of frame f meets a sphere nearer
\* than the light is to the hit
Blocked(f, j) ==
    LET light_vec   == sub(lights[j].position, f.hit)
        light_dir   == normalize(light_vec)
        shadow_orig == IF dot(light_dir, f.normal) < 0
                       THEN sub(f.hit, mul(f.normal, EPS))
                       ELSE add(f.hit, mul(f.normal, EPS))
    IN  \E m \in 1..Len(spheres) :
          LET t == ray_intersect(spheres[m], shadow_orig, light_dir)
          IN  /\ t # None
              /\ norm(sub(add(shadow_orig, mul(light_dir, t[1])),
                          shadow_orig)) < norm(light_vec)

\* what light j adds to the diffuse sum when it is not occluded
DiffuseOf(f, j) ==
    FMul(lights[j].intensity,
         FMax(dot(normalize(sub(lights[j].position, f.hit)), f.normal), 0))

\* C5: in the light loop each light whose shadow ray hits a sphere at a
\* distance strictly less than the distance from the hit point to the light
\* adds nothing to the diffuse and the specular sum, every other light adds
\* intensity * max(0, dot(lightDir, normal)) to the diffuse sum, and every
\* light is evaluated, whatever the lights before it did.
C5_Shadow ==
    /\ \A n \in 1..Len(stack) :
         stack[n].at = "lights" =>
           /\ Len(stack[n].lit) = stack[n].k - 1
           /\ \A j \in 1..Len(stack[n].lit) :
                IF Blocked(stack[n], j)
                THEN stack[n].lit[j] = [dli |-> 0, sli |-> 0]
                ELSE stack[n].lit[j].dli = DiffuseOf(stack[n], j)
    /\ \A n \in 1..Len(calls) :
         (calls[n].result # None /\ Children(n) # {}) =>
           calls[n].scenes = 1 + Len(lights)

\* the first light is occluded and the second still adds to the diffuse sum
C5_Witness ==
    \E n \in 1..Len(stack) :
      /\ stack[n].at = "lights"
      /\ Len(stack[n].lit) >= 2
      /\ Blocked(stack[n], 1)
      /\ stack[n].lit[1] = [dli |-> 0, sli |-> 0]
      /\ ~Blocked(stack[n], 2)
      /\ stack[n].lit[2].dli > 0

\* every material of the scene has albedo[2] = 0 (albedo[3] here)
NoReflectance ==
    \A n \in 1..Len(spheres) : spheres[n].material.albedo[3] = 0

\* every material of the scene has albedo[3] = 0 (albedo[4] here)
NoRefractance ==
    \A n \in 1..Len(spheres) : spheres[n].material.albedo[4] = 0

\* the colour of the pixel just traced is the one cast_ray returns under
\* every depth limit
SameForEveryLimit ==
    \A limit \in 0..MaxLimit :
      cast_ray(limit, 0, ORIGIN, pixel_dir(i), spheres, lights) = ret

\* C6 as stated: when every material has albedo[2] = 0, the colour
\* cast_ray(0, ...) returns is the same for every depth limit.
C6_Original ==
    (pc = "cast" /\ stack = << >> /\ NoReflectance) => SameForEveryLimit

\* C6: when every material has albedo[2] = 0 and albedo[3] = 0, the colour
\* cast_ray(0, ...) returns is the same for every depth limit.
C6_DiffuseDepthFree ==
    (pc = "cast" /\ stack = << >> /\ NoReflectance /\ NoRefractance) =>
      SameForEveryLimit

\* a primary ray of a scene without reflectance and refractance has hit a
\* sphere, recursed and returned
C6_Witness ==
    /\ pc = "cast"
    /\ stack = << >>
    /\ spheres # << >>
    /\ NoReflectance
    /\ NoRefractance
    /\ Len(calls) > 1

Channel(pixel, c) == IF c = 1 THEN pixel.r ELSE IF c = 2 THEN pixel.g ELSE pixel.b

\* floor(v * 255)
Floor255(v) == (v * 255) \div SCALE

\* C7 as stated: every byte written is floor(value * 255) truncated to a
\* byte, so that a value above 1.0 is not pinned to 255.
C7_Original ==
    \A n \in 2..Len(out) : \A c \in 1..3 :
      out[n].bytes[c] = Floor255(Channel(framebuffer[n - 1], c)) % 256

\* C7: the byte written for a channel value in [0, 1] is
\* floor(value * 255), and for a value above 1.0 it is 255.
C7_Saturates ==
    \A n \in 2..Len(out) : \A c \in 1..3 :
      LET v == Channel(framebuffer[n - 1], c)
      IN  /\ (0 <= v /\ v <= F(1)) => out[n].bytes[c] = Floor255(v)
          /\ v > F(1) => out[n].bytes[c] = 255

\* a channel with floor(value * 255) > 255 has been written, as 255
C7_Witness ==
    \E n \in 2..Len(out) : \E c \in 1..3 :
      /\ Floor255(Channel(framebuffer[n - 1], c)) > 255
      /\ out[n].bytes[c] = 255

\* the direction through the centre of the pixel in column col of row row
PixelDirAt(col, row) ==
    normalize(Vec(F(col) + D(1, 2) - FDiv(F(WIDTH), F(2)),
                  -F(row) - D(1, 2) + FDiv(F(HEIGHT), F(2)),
                  FDiv(F(HEIGHT), -screen_width)))

\* C8: render calls cast_ray once per pixel, with depth 0 and origin
\* (0, 0, 0), for the indices 0 .. WIDTH * HEIGHT - 1 in increasing order,
\* index i being column i % WIDTH of row i / WIDTH and row 0 the top row;
\* the framebuffer holds the results in that order and ends with
\* WIDTH * HEIGHT entries; the output is the header, written before any
\* pixel, and then one three-byte pixel per framebuffer entry in the same
\* order (3 * 1024 * 768 = 2,359,296 bytes for the raster of the source).
C8_RowMajor ==
    /\ Len(framebuffer) = i
    /\ i <= WIDTH * HEIGHT
    /\ Len(primaries) = IF pc = "cast" THEN i + 1 ELSE i
    /\ \A n \in 1..Len(primaries) :
         /\ primaries[n] =
              [i |-> n - 1, depth |-> 0, orig |-> Vec(0, 0, 0),
               dir |-> PixelDirAt((n - 1) % WIDTH, (n - 1) \div WIDTH)]
         /\ (n - 1) \div WIDTH = 0 => primaries[n].dir.y > 0
    /\ (pc = "cast" /\ stack = << >>) =>
         ret = cast_ray(CAST_RAY_DEPTH, 0, ORIGIN,
                        PixelDirAt(i % WIDTH, i \div WIDTH), spheres, lights)
    /\ (pc = "trace" /\ i > 0) => framebuffer[i] = ret
    /\ pc = "done" =>
         \A n \in 1..Len(framebuffer) :
           framebuffer[n] = cast_ray(CAST_RAY_DEPTH, 0, ORIGIN,
                                     PixelDirAt((n - 1) % WIDTH,
                                                (n - 1) \div WIDTH),
                                     spheres, lights)
    /\ pc \in {"write", "done"} => Len(framebuffer) = WIDTH * HEIGHT
    /\ Len(out) = IF pc = "header" THEN 0 ELSE 1 + written
    /\ written > 0 => pc \in {"write", "done"}
    /\ out # << >> =>
         out[1] = [kind |-> "header", magic |-> "P6", width |-> WIDTH,
                   height |-> HEIGHT, maxval |-> 255]
    /\ \A n \in 2..Len(out) :
         /\ out[n].kind = "pixel"
         /\ Len(out[n].bytes) = 3
         /\ out[n].bytes = pixel_bytes(framebuffer[n - 1])
    /\ pc = "done" => Len(out) = 1 + WIDTH * HEIGHT
    /\ 3 * 1024 * 768 = 2359296

\* render has written the whole image
C8_Witness ==
    /\ pc = "done"
    /\ Len(out) = 1 + WIDTH * HEIGHT
    /\ WIDTH * HEIGHT > 1

\* the origin orig of a secondary ray of direction d cast from hit, with
\* surface normal normal, is the perturbed point the claim names
PerturbedAsClaimed(orig, d, hit, normal) ==
    /\ dot(d, normal) < 0 => orig = sub(hit, mul(normal, EPS))
    /\ dot(d, normal) >= 0 => orig = add(hit, mul(normal, EPS))
    /\ orig # hit

\* C9: every reflection ray, refraction ray and shadow ray starts from
\* hit - normal * EPS when the dot product of its direction with the normal
\* is negative and from hit + normal * EPS when it is zero or positive,
\* never from the hit point itself; the refraction ray is cast whatever
\* refract returned, the zero vector of total internal reflection from
\* hit + normal * EPS.
C9_PerturbedOrigins ==
    /\ \A n \in 1..Len(calls) :
         calls[n].kind # "primary" =>
           /\ PerturbedAsClaimed(calls[n].orig, calls[n].dir,
                                 calls[n].from[1].hit,
                                 calls[n].from[1].normal)
           /\ calls[n].dir = Vec(0, 0, 0) =>
                calls[n].orig = add(calls[n].from[1].hit,
                                    mul(calls[n].from[1].normal, EPS))
    /\ shadow # None =>
         PerturbedAsClaimed(shadow[1].orig, shadow[1].dir, shadow[1].hit,
                            shadow[1].normal)
    /\ \A n \in 1..Len(stack) :
         stack[n].at \in {"refract", "lights"} =>
           \E m \in Children(stack[n].id) :
             /\ calls[m].kind = "refract"
             /\ calls[m].dir = refract(stack[n].dir, stack[n].normal,
                                       stack[n].material.refractive_index)

\* a refraction ray of direction zero has been cast
C9_Witness ==
    \E n \in 1..Len(calls) :
      /\ calls[n].kind = "refract"
      /\ calls[n].dir = Vec(0, 0, 0)
      /\ calls[n].result # None

\* 2 to the power d
RECURSIVE Pow2(_)
Pow2(d) == IF d = 0 THEN 1 ELSE 2 * Pow2(d - 1)

\* C10: one cast_ray(0, ...) makes at most 2^(CAST_RAY_DEPTH + 2) - 1 = 15
\* invocations, at most 2^d of them at depth d; an invocation that hits a
\* sphere within the depth limit makes exactly two recursive calls, the
\* reflection and the refraction call, whatever the albedo, and one that
\* misses or is beyond the limit makes none.
C10_CallCount ==
    /\ Pow2(CAST_RAY_DEPTH + 2) - 1 = 15
    /\ Len(calls) <= Pow2(CAST_RAY_DEPTH + 2) - 1
    /\ \A d \in 0..(CAST_RAY_DEPTH + 1) :
         Cardinality({ n \in 1..Len(calls) : calls[n].depth = d }) <= Pow2(d)
    /\ \A n \in 1..Len(calls) :
         /\ calls[n].depth <= CAST_RAY_DEPTH + 1
         /\ calls[n].result # None =>
              IF IsHit(n)
              THEN /\ Cardinality(Children(n)) = 2
                   /\ { calls[m].kind : m \in Children(n) }
                        = {"reflect", "refract"}
              ELSE Children(n) = {}

\* a primary ray has returned after 15 invocations, some of them on a
\* material without refractance
C10_Witness ==
    /\ pc = "cast"
    /\ stack = << >>
    /\ Len(calls) = 15
    /\ \E n \in 1..Len(spheres) : spheres[n].material.albedo[4] = 0

=============================================================================
